---- MODULE Spec2Model ----
(***************************************************************************)
(* Model of the coreference resolver of pocores: class Pocores             *)
(* (src/src/pocores/main.py) with the candidate filters                    *)
(* (src/src/pocores/filters.py) and the preferences                        *)
(* (src/src/pocores/preferences.py).                                       *)
(*                                                                         *)
(* A token node id is the Python string 's<sent>_t<word>'.  The model      *)
(* names a token by the pair <<sent, word>> and computes every operation   *)
(* that depends on the id being a string (max, tuple sorting, the regular  *)
(* expressions) on TokenStr(id), the sequence of its character codes.      *)
(***************************************************************************)
EXTENDS Integers, Sequences, FiniteSets, TLC

VARIABLES
    doc,               \* the document graph: sentences of token kinds
    weights,           \* the weights argument of the valid calls
    max_sent_dist,     \* the max_sent_dist argument of the calls
    entities,          \* Pocores.entities   (defaultdict(list))
    mentions,          \* Pocores.mentions   (dict)
    ana_to_ante,       \* Pocores.ana_to_ante (dict)
    filtered_results,  \* Pocores.filtered_results (OrderedDict)
    candidate_report,  \* attribute Pocores.candidate_report, if there is one
    pc,                \* "idle", "scanning", "done", "failed"
    pos,               \* index of the next token in document order
    err,               \* the exception that ended the last call, or "none"
    calls,             \* number of calls of resolve_anaphora so far
    last,              \* locals of the most recent loop iteration
    results,           \* (entities, ana_to_ante) at the end of each completed run
    other              \* the attributes of a second instance, if there is one

vars == <<doc, weights, max_sent_dist, entities, mentions, ana_to_ante,
          filtered_results, candidate_report, pc, pos, err, calls, last,
          results, other>>

----------------------------------------------------------------------------
(* Bounds of the model *)

MaxTokens == 3      \* tokens of a generated document (fillers not counted)
MaxCalls == 2       \* calls of resolve_anaphora on one instance

(* Program constants *)

MAX_SENT_DIST == 4
NumWeights == 7

WEIGHTS == <<8, 2, 8, 3, 2, 7, 0>>

----------------------------------------------------------------------------
(* The document graph provider: token attributes *)

NoFeat == "-"

Tok(word, lemma, tag, deprel, gender, person, number, isroot) ==
    [word |-> word, lemma |-> lemma, pos |-> tag, deprel |-> deprel,
     gender |-> gender, person |-> person, number |-> number,
     root |-> isroot]

KindRec ==
    [Hund   |-> Tok("Hund", "Hund", "NN", "SB", "masc", "3", "sg", FALSE),
     Hunde  |-> Tok("Hunde", "Hund", "NN", "OA", "masc", "3", "pl", FALSE),
     Katze  |-> Tok("Katze", "Katze", "NN", "OA", "fem", "3", "sg", FALSE),
     Er     |-> Tok("Er", "er", "NN", "OA", "masc", "3", "sg", FALSE),
     Don    |-> Tok("Don", "Don", "NE", "PNC", "masc", "3", "sg", FALSE),
     er     |-> Tok("er", "er", "PPER", "SB", "masc", "3", "sg", FALSE),
     sie    |-> Tok("sie", "sie", "PPER", "OA", "fem", "3", NoFeat, FALSE),
     ich    |-> Tok("ich", "ich", "PPER", "SB", NoFeat, "1", "sg", FALSE),
     es     |-> Tok("es", "es", "PPER", "SB", "neut", "3", "sg", FALSE),
     EsNoun |-> Tok("Es", "es", "NN", "SB", "neut", "3", "sg", FALSE),
     sich   |-> Tok("sich", "sich", "PRF", "OA", NoFeat, "3", NoFeat, FALSE),
     seine  |-> Tok("seine", "sein", "PPOSAT", "NK", "masc", "3", "pl", FALSE),
     der    |-> Tok("der", "der", "PRELS", "SB", "masc", "3", "sg", FALSE),
     dieser |-> Tok("dieser", "dieser", "PDS", "DA", "masc", "3", "sg", FALSE),
     man    |-> Tok("man", "man", "PIS", "SB", NoFeat, "3", "sg", FALSE),
     gibt   |-> Tok("gibt", "geben", "VVFIN", "--", NoFeat, "3", "sg", TRUE),
     komma  |-> Tok(",", "--", "$,", "PUNC", NoFeat, NoFeat, NoFeat, FALSE),
     und    |-> Tok("und", "und", "KON", "CD", NoFeat, NoFeat, NoFeat, FALSE),
     x      |-> Tok("x", "x", "ADV", "MO", NoFeat, NoFeat, NoFeat, FALSE)]

Filler == "x"

(* token ids of document d, and the attribute dictionary of a token *)
TokensOf(d, s) == [w \in 1..Len(d[s]) |-> <<s, w>>]

node_attrs(t) == KindRec[doc[t[1]][t[2]]]

RECURSIVE FlatFrom(_, _)
FlatFrom(d, s) ==
    IF s > Len(d) THEN <<>> ELSE TokensOf(d, s) \o FlatFrom(d, s + 1)

(* every token of the document, sentence by sentence *)
Flat(d) == FlatFrom(d, 1)

----------------------------------------------------------------------------
(* Token node ids as Python strings *)

ChS == 115      \* 's'
ChT == 116      \* 't'
ChUnderscore == 95
ChZero == 48

RECURSIVE Digits(_)
Digits(n) ==
    IF n < 10 THEN <<ChZero + n>> ELSE Digits(n \div 10) \o <<ChZero + (n % 10)>>

(* filters.tokentuple2id: 's{}_t{}'.format(sent_pos, word_pos) *)
tokentuple2id(sent_pos, word_pos) ==
    <<ChS>> \o Digits(sent_pos) \o <<ChUnderscore, ChT>> \o Digits(word_pos)

TokenStr(t) == tokentuple2id(t[1], t[2])

IsDigit(c) == c >= ChZero /\ c <= ChZero + 9

(* the integers written in a string, in order: the '([0-9]+)' chunks *)
RECURSIVE IntChunksFrom(_, _, _, _)
IntChunksFrom(str, i, acc, open) ==
    IF i > Len(str)
    THEN IF open THEN <<acc>> ELSE <<>>
    ELSE IF IsDigit(str[i])
         THEN IntChunksFrom(str, i + 1,
                            (IF open THEN acc * 10 ELSE 0) + (str[i] - ChZero),
                            TRUE)
         ELSE (IF open THEN <<acc>> ELSE <<>>)
              \o IntChunksFrom(str, i + 1, 0, FALSE)

(* discoursegraphs.util.natural_sort_key: digit runs become integers; the
   other chunks ('s', '_t', '') are the same in every token id *)
natural_sort_key(t) == IntChunksFrom(TokenStr(t), 1, 0, FALSE)

(* comparison of two natural sort keys (Python list comparison) *)
RECURSIVE KeyLess(_, _)
KeyLess(a, b) ==
    IF a = <<>> THEN b # <<>>
    ELSE IF b = <<>> THEN FALSE
    ELSE IF a[1] # b[1] THEN a[1] < b[1]
    ELSE KeyLess(Tail(a), Tail(b))

(* document order of two token ids *)
DocLess(t, u) == KeyLess(natural_sort_key(t), natural_sort_key(u))

(* comparison of two Python byte strings *)
RECURSIVE StrLess(_, _)
StrLess(a, b) ==
    IF a = <<>> THEN b # <<>>
    ELSE IF b = <<>> THEN FALSE
    ELSE IF a[1] # b[1] THEN a[1] < b[1]
    ELSE StrLess(Tail(a), Tail(b))

(* sorted(seq, key=natural_sort_key): insertion into a sorted list *)
RECURSIVE InsertSorted(_, _)
InsertSorted(t, sorted) ==
    IF sorted = <<>> THEN <<t>>
    ELSE IF DocLess(t, sorted[1]) THEN <<t>> \o sorted
    ELSE <<sorted[1]>> \o InsertSorted(t, Tail(sorted))

RECURSIVE SortNatural(_)
SortNatural(seq) ==
    IF seq = <<>> THEN <<>>
    ELSE InsertSorted(seq[Len(seq)], SortNatural(SubSeq(seq, 1, Len(seq) - 1)))

Reverse(seq) == [i \in 1..Len(seq) |-> seq[Len(seq) + 1 - i]]

Range(seq) == {seq[i] : i \in 1..Len(seq)}

----------------------------------------------------------------------------
(* Dictionaries *)

EmptyMap == [k \in {} |-> <<>>]

Put(m, k, v) == [j \in (DOMAIN m) \cup {k} |-> IF j = k THEN v ELSE m[j]]

(* defaultdict(list).__getitem__: the value read ... *)
DefaultGet(ents, k) == IF k \in DOMAIN ents THEN ents[k] ELSE <<>>

(* ... and the dictionary it leaves behind: a missing key is inserted *)
DefaultTouch(ents, k) == IF k \in DOMAIN ents THEN ents ELSE Put(ents, k, <<>>)

(* the positional attributes the graph provider stores on a token node *)
sent_pos(t) == t[1]
word_pos(t) == t[2]

----------------------------------------------------------------------------
(* Candidate registry *)

RECURSIVE ConcatChains(_, _)
ConcatChains(ents, keys) ==
    IF keys = {} THEN <<>>
    ELSE LET k == CHOOSE j \in keys : TRUE
         IN ents[k] \o ConcatChains(ents, keys \ {k})

(* variant: sorted(candidates) without the key, the order of the strings *)
RECURSIVE InsertSortedStr(_, _)
InsertSortedStr(t, sorted) ==
    IF sorted = <<>> THEN <<t>>
    ELSE IF StrLess(TokenStr(t), TokenStr(sorted[1])) THEN <<t>> \o sorted
    ELSE <<sorted[1]>> \o InsertSortedStr(t, Tail(sorted))

RECURSIVE SortStr(_)
SortStr(seq) ==
    IF seq = <<>> THEN <<>>
    ELSE InsertSortedStr(seq[Len(seq)], SortStr(SubSeq(seq, 1, Len(seq) - 1)))

get_candidates_str(ents) == SortStr(ConcatChains(ents, DOMAIN ents))

(* Pocores._get_candidates *)
get_candidates(ents) == SortNatural(ConcatChains(ents, DOMAIN ents))

----------------------------------------------------------------------------
(* Dependency traversal (discoursegraphs traverse_dependencies_up): the
   documents of the model attach every token to the token before it, except
   a root token and the first token of a sentence *)

HasHead(t) == ~node_attrs(t).root /\ word_pos(t) > 1

RECURSIVE traverse_dependencies_up(_)
traverse_dependencies_up(t) ==
    IF ~HasHead(t) THEN <<>>
    ELSE LET h == <<sent_pos(t), word_pos(t) - 1>>
         IN <<node_attrs(h).lemma>> \o traverse_dependencies_up(h)

----------------------------------------------------------------------------
(* filters.py *)

EXPLETIVE_VERBS == {"sein", "regnen", "gelingen", "bestehen", "geben"}

Abs(i) == IF i < 0 THEN -i ELSE i

(* SENT_REGEX 's(\d+)_t\d+': the first integer of the id *)
SentOfId(t) == IntChunksFrom(TokenStr(t), 1, 0, FALSE)[1]

(* variant: the regular expression takes one digit of the sentence index *)
distance_digit(t1, t2) ==
    Abs((TokenStr(t1)[2] - ChZero) - (TokenStr(t2)[2] - ChZero))

(* variant: the difference of the sentence indices without abs *)
distance_signed(t1, t2) == SentOfId(t1) - SentOfId(t2)

distance(t1, t2) == Abs(SentOfId(t1) - SentOfId(t2))

feature_agreement(antecedent_dict, anaphora_dict, feat) ==
    ~(antecedent_dict[feat] # NoFeat /\ anaphora_dict[feat] # NoFeat
      /\ antecedent_dict[feat] # anaphora_dict[feat])

(* variant: number is not compared for a possessive anaphora *)
morph_agreement_possessive(antecedent_node, anaphora_node) ==
    \A feat \in (IF node_attrs(anaphora_node).pos = "PPOSAT"
                 THEN {"gender", "person"}
                 ELSE {"gender", "person", "number"}) :
        feature_agreement(node_attrs(antecedent_node),
                          node_attrs(anaphora_node), feat)

morph_agreement(antecedent_node, anaphora_node) ==
    \A feat \in {"gender", "person", "number"} :
        feature_agreement(node_attrs(antecedent_node),
                          node_attrs(anaphora_node), feat)

IsBoundaryRel(t) == node_attrs(t).deprel \in {"PUNC", "CD"}

SetMax(S) == CHOOSE m \in S : \A n \in S : n <= m
SetMin(S) == CHOOSE m \in S : \A n \in S : m <= n

(* is_bound.anaphora_boundaries: <<begin, end>> *)
anaphora_boundaries(anaphora) ==
    LET s == sent_pos(anaphora)
        p == word_pos(anaphora)
        sent_length == Len(doc[s])
        left == {q \in 1..p : IsBoundaryRel(<<s, q>>)}
        right == {q \in p..(sent_length - 1) : IsBoundaryRel(<<s, q>>)}
    IN <<IF left = {} THEN 1 ELSE SetMax(left),
         IF right = {} THEN sent_length ELSE SetMin(right)>>

(* x in range(lo, hi) *)
InRange(x, lo, hi) == lo <= x /\ x < hi

(* variant: principle 1 asks for the same sentence only *)
BindingR1SameSentence(antecedent_id, anaphora_id) ==
    ~(node_attrs(anaphora_id).pos = "PRF"
      /\ sent_pos(anaphora_id) # sent_pos(antecedent_id))

(* binding principle 1 lets the pair pass *)
BindingR1(antecedent_id, anaphora_id) ==
    LET lim == anaphora_boundaries(anaphora_id)
    IN ~(node_attrs(anaphora_id).pos = "PRF"
         /\ (sent_pos(anaphora_id) # sent_pos(antecedent_id)
             \/ ~InRange(word_pos(antecedent_id), lim[1], lim[2])))

(* binding principle 2 is looked at *)
BindingR2Applies(antecedent_id, anaphora_id) ==
    /\ node_attrs(anaphora_id).pos = "PPER"
    /\ node_attrs(antecedent_id).pos \notin {"PRF", "PPOSAT"}

(* the chain binding principles 2 and 3 iterate over *)
BoundChain(ents, antecedent_id) == DefaultGet(ents, antecedent_id)

BindingR2(ents, antecedent_id, anaphora_id) ==
    LET lim == anaphora_boundaries(anaphora_id)
        chain == BoundChain(ents, antecedent_id)
    IN ~(BindingR2Applies(antecedent_id, anaphora_id)
         /\ \E i \in 1..Len(chain) :
               /\ sent_pos(anaphora_id) = sent_pos(chain[i])
               /\ InRange(word_pos(chain[i]), lim[1], lim[2]))

BindingR3Applies(anaphora_id) == node_attrs(anaphora_id).pos \in {"NN", "NE"}

BindingR3(ents, antecedent_id, anaphora_id) ==
    LET chain == BoundChain(ents, antecedent_id)
    IN ~(BindingR3Applies(anaphora_id)
         /\ \E i \in 1..Len(chain) :
               sent_pos(anaphora_id) = sent_pos(chain[i]))

(* the value is_bound returns *)
is_bound(ents, antecedent_id, anaphora_id) ==
    /\ BindingR1(antecedent_id, anaphora_id)
    /\ BindingR2(ents, antecedent_id, anaphora_id)
    /\ BindingR3(ents, antecedent_id, anaphora_id)

(* the entities dictionary after a call of is_bound: principles 2 and 3 read
   pocores.entities[antecedent_id], which inserts a missing key *)
is_bound_entities(ents, antecedent_id, anaphora_id) ==
    IF /\ BindingR1(antecedent_id, anaphora_id)
       /\ \/ BindingR2Applies(antecedent_id, anaphora_id)
          \/ BindingR3Applies(anaphora_id)
    THEN DefaultTouch(ents, antecedent_id)
    ELSE ents

RECURSIVE BindingEntities(_, _, _)
BindingEntities(ents, cands, anaphora) ==
    IF cands = <<>> THEN ents
    ELSE BindingEntities(is_bound_entities(ents, cands[1], anaphora),
                         Tail(cands), anaphora)

(* variant: the agreement stage is fed with the output of the distance
   stage, so that reflexive candidates come back *)
get_filtered_candidates_reflexive(ents, candidates, anaphora, sentence_dist) ==
    LET nearby_cands ==
            SelectSeq(candidates,
                      LAMBDA can : distance(can, anaphora) <= sentence_dist)
        non_reflexive ==
            SelectSeq(nearby_cands, LAMBDA can : node_attrs(can).pos # "PRF")
        agreeing_cands ==
            SelectSeq(nearby_cands, LAMBDA can : morph_agreement(can, anaphora))
        bound_cands ==
            SelectSeq(agreeing_cands, LAMBDA can : is_bound(ents, can, anaphora))
    IN [distance |-> nearby_cands,
        non_reflexive |-> non_reflexive,
        agreement |-> agreeing_cands,
        binding |-> bound_cands,
        entities |-> BindingEntities(ents, agreeing_cands, anaphora)]

(* filters.get_filtered_candidates, after the lookup of candidate_report:
   the four stage outputs and the entities dictionary it leaves *)
get_filtered_candidates(ents, candidates, anaphora, sentence_dist) ==
    LET nearby_cands ==
            SelectSeq(candidates,
                      LAMBDA can : distance(can, anaphora) <= sentence_dist)
        non_reflexive ==
            SelectSeq(nearby_cands, LAMBDA can : node_attrs(can).pos # "PRF")
        agreeing_cands ==
            SelectSeq(non_reflexive, LAMBDA can : morph_agreement(can, anaphora))
        bound_cands ==
            SelectSeq(agreeing_cands, LAMBDA can : is_bound(ents, can, anaphora))
    IN [distance |-> nearby_cands,
        non_reflexive |-> non_reflexive,
        agreement |-> agreeing_cands,
        binding |-> bound_cands,
        entities |-> BindingEntities(ents, agreeing_cands, anaphora)]

is_coreferent(antecedent, anaphora) ==
    node_attrs(antecedent).lemma = node_attrs(anaphora).lemma

is_expletive(token_node) ==
    /\ node_attrs(token_node).word \in {"es", "Es"}
    /\ \E i \in 1..Len(traverse_dependencies_up(token_node)) :
          traverse_dependencies_up(token_node)[i] \in EXPLETIVE_VERBS

----------------------------------------------------------------------------
(* preferences.py *)

check_parallelism(antecedent_id, anaphora_id) ==
    /\ node_attrs(antecedent_id).deprel = node_attrs(anaphora_id).deprel
    /\ node_attrs(antecedent_id).deprel \in {"SB", "OA", "DA"}

check_role(antecedent_id, role) == node_attrs(antecedent_id).deprel = role

(* get_chain_length raises KeyError for a token that is not in mentions *)
ChainLengthDefined(ments, antecedent_id) == antecedent_id \in DOMAIN ments

get_chain_length(ents, ments, antecedent_id) ==
    Len(DefaultGet(ents, ments[antecedent_id]))

get_depth(token_id) == Len(traverse_dependencies_up(token_id))

(* math.log in millionths, for the chain lengths the model reaches *)
LogMicro(n) ==
    <<0, 693147, 1098612, 1386294, 1609438, 1791759, 1945910, 2079442>>[n]

Bonus(cond, w) == IF cond THEN w ELSE 0

(* the score _resolve_pronominal_anaphora gives a candidate, in millionths *)
Score(ents, ments, w, can, anaphora) ==
    1000000 * ( Bonus(check_parallelism(can, anaphora), w[1])
              + Bonus(check_role(can, "SB"), w[2])
              + Bonus(check_role(can, "OA"), w[3])
              + Bonus(check_role(can, "DA"), w[4])
              - w[6] * distance(can, anaphora)
              - w[7] * get_depth(can) )
    + w[5] * LogMicro(get_chain_length(ents, ments, can))

(* the scoring loop raises: KeyError in get_chain_length, or ValueError in
   math.log(0) *)
ScoreError(ents, ments, cands) ==
    IF \E i \in 1..Len(cands) : ~ChainLengthDefined(ments, cands[i])
    THEN "KeyError"
    ELSE IF \E i \in 1..Len(cands) : get_chain_length(ents, ments, cands[i]) = 0
         THEN "ValueError"
         ELSE "none"

(* max(can_dict): the greatest key as a string *)
StrMax(cands) ==
    CHOOSE c \in Range(cands) :
        \A d \in Range(cands) : d = c \/ StrLess(TokenStr(d), TokenStr(c))

(* (v1, k1) < (v2, k2) for the tuples of sorted([(v, k) ...]) *)
PairLess(v1, k1, v2, k2) ==
    v1 < v2 \/ (v1 = v2 /\ StrLess(TokenStr(k1), TokenStr(k2)))

(* variant: the closest candidate, whatever the scores *)
BestScoredClosest(ents, ments, w, cands, anaphora) == cands[Len(cands)]

(* sorted([(v, k) for k, v in can_dict.iteritems()], reverse=True)[0][1] *)
BestScored(ents, ments, w, cands, anaphora) ==
    CHOOSE c \in Range(cands) :
        \A d \in Range(cands) :
            d = c \/ PairLess(Score(ents, ments, w, d, anaphora), d,
                              Score(ents, ments, w, c, anaphora), c)

----------------------------------------------------------------------------
(* main.py: the registry updates *)

(* variant: the mention is put in front of the chain *)
AttachEntitiesFront(ents, ments, mention, antecedent) ==
    Put(ents, ments[antecedent],
        <<mention>> \o DefaultGet(ents, ments[antecedent]))

(* entities[first_mention].append(mention); mentions[mention] = first_mention *)
AttachEntities(ents, ments, mention, antecedent) ==
    Put(ents, ments[antecedent],
        Append(DefaultGet(ents, ments[antecedent]), mention))

(* variant: the attached mention is not entered into mentions *)
AttachMentionsNone(ments, mention, antecedent) == ments

AttachMentions(ments, mention, antecedent) ==
    Put(ments, mention, ments[antecedent])

(* entities[token] = [token]; mentions[token] = token *)
NewEntity(ents, token) == Put(ents, token, <<token>>)

NewMention(ments, token) == Put(ments, token, token)

(* what one call of a resolver leaves: the registry, the exception it raised
   ("none" if it returned), and its locals *)
Outcome(ents, ments, a2a, e, filtered, antecedent, stages) ==
    [entities |-> ents, mentions |-> ments, ana_to_ante |-> a2a, err |-> e,
     filtered |-> filtered, antecedent |-> antecedent, stages |-> stages]

NoStages == <<>>

----------------------------------------------------------------------------
(* main.py: nominal resolution *)

(* variant: the candidates are scanned from the earliest one *)
NominalMatchesEarliest(ents, anaphora) ==
    SelectSeq(get_candidates(ents),
              LAMBDA antecedent : is_coreferent(antecedent, anaphora))

(* variant: the candidates must agree with the noun in their features *)
NominalMatchesAgreeing(ents, anaphora) ==
    SelectSeq(Reverse(get_candidates(ents)),
              LAMBDA antecedent : /\ is_coreferent(antecedent, anaphora)
                                  /\ morph_agreement(antecedent, anaphora))

(* the candidates with the lemma of the anaphora, closest first *)
NominalMatches(ents, anaphora) ==
    SelectSeq(Reverse(get_candidates(ents)),
              LAMBDA antecedent : is_coreferent(antecedent, anaphora))

(* the body of _resolve_nominal_anaphora, given the matching candidates *)
NominalWith(ents, ments, a2a, matches, anaphora) ==
    IF matches # <<>>
    THEN IF matches[1] \in DOMAIN ments
         THEN Outcome(AttachEntities(ents, ments, anaphora, matches[1]),
                      AttachMentions(ments, anaphora, matches[1]),
                      a2a, "none", <<>>, <<matches[1]>>, NoStages)
         ELSE Outcome(ents, ments, a2a, "KeyError", <<>>, <<matches[1]>>,
                      NoStages)
    ELSE IF anaphora \notin DOMAIN ments
         THEN Outcome(NewEntity(ents, anaphora), NewMention(ments, anaphora),
                      a2a, "none", <<>>, <<>>, NoStages)
         ELSE Outcome(ents, ments, a2a, "none", <<>>, <<>>, NoStages)

(* Pocores._resolve_nominal_anaphora *)
resolve_nominal_anaphora(ents, ments, a2a, anaphora) ==
    NominalWith(ents, ments, a2a, NominalMatches(ents, anaphora), anaphora)

----------------------------------------------------------------------------
(* main.py: pronominal resolution *)

(* the antecedent the preferences choose among a non-empty filtered list;
   <<>> when no branch assigns one *)
ChosenAntecedent(ents, ments, w, filtered, anaphora) ==
    IF node_attrs(anaphora).pos \in {"PRELS", "PDS"}
    THEN <<StrMax(filtered)>>
    ELSE IF node_attrs(anaphora).pos \in {"PPER", "PRF", "PPOSAT"}
         THEN <<BestScored(ents, ments, w, filtered, anaphora)>>
         ELSE <<>>

(* the exception the preferences raise, or "none" *)
PronominalError(ents, ments, filtered, anaphora) ==
    IF node_attrs(anaphora).pos \in {"PRELS", "PDS"} THEN "none"
    ELSE IF node_attrs(anaphora).pos \in {"PPER", "PRF", "PPOSAT"}
         THEN ScoreError(ents, ments, filtered)
         ELSE "UnboundLocalError"

(* the store step, given the exception e of the preferences and the
   antecedent they chose *)
PronominalStore(ents, ments, a2a, anaphora, filtered, e, antecedent, stages) ==
    IF e # "none"
    THEN Outcome(ents, ments, a2a, e, filtered, <<>>, stages)
    ELSE IF antecedent[1] \notin DOMAIN ments
    THEN Outcome(ents, ments, Put(a2a, anaphora, antecedent[1]), "KeyError",
                 filtered, antecedent, stages)
    ELSE Outcome(AttachEntities(ents, ments, anaphora, antecedent[1]),
                 AttachMentions(ments, anaphora, antecedent[1]),
                 Put(a2a, anaphora, antecedent[1]), "none",
                 filtered, antecedent, stages)

(* variant: an empty filtered list returns without registering the anaphora *)
PronominalPrefsNoFallback(ents, ments, a2a, w, anaphora, filtered, stages) ==
    IF filtered = <<>>
    THEN Outcome(ents, ments, a2a, "none", filtered, <<>>, stages)
    ELSE PronominalStore(ents, ments, a2a, anaphora, filtered,
                         PronominalError(ents, ments, filtered, anaphora),
                         IF PronominalError(ents, ments, filtered, anaphora)
                              = "none"
                         THEN ChosenAntecedent(ents, ments, w, filtered, anaphora)
                         ELSE <<>>,
                         stages)

(* the body of _resolve_pronominal_anaphora behind the filters; ents is the
   entities dictionary the filters left *)
PronominalPrefs(ents, ments, a2a, w, anaphora, filtered, stages) ==
    IF filtered = <<>>
    THEN Outcome(NewEntity(ents, anaphora), NewMention(ments, anaphora), a2a,
                 "none", filtered, <<>>, stages)
    ELSE PronominalStore(ents, ments, a2a, anaphora, filtered,
                         PronominalError(ents, ments, filtered, anaphora),
                         IF PronominalError(ents, ments, filtered, anaphora)
                              = "none"
                         THEN ChosenAntecedent(ents, ments, w, filtered, anaphora)
                         ELSE <<>>,
                         stages)

(* the report of the four stages *)
Stages(fr) ==
    [distance |-> fr.distance, non_reflexive |-> fr.non_reflexive,
     agreement |-> fr.agreement, binding |-> fr.binding]

PronominalFiltered(fr, ments, a2a, w, anaphora) ==
    PronominalPrefs(fr.entities, ments, a2a, w, anaphora, fr.binding, Stages(fr))

(* Pocores._resolve_pronominal_anaphora on an instance that has a
   candidate_report *)
resolve_pronominal_anaphora(ents, ments, a2a, w, sentence_dist, anaphora) ==
    PronominalFiltered(
        get_filtered_candidates(ents, get_candidates(ents), anaphora,
                                sentence_dist),
        ments, a2a, w, anaphora)

----------------------------------------------------------------------------
(* The calls *)

(* value and raised are what a function called from outside a run returned
   (<<v>>, or <<>> when it raised) and the exception it raised *)
NoLast ==
    [op |-> "none", tok |-> <<>>, filtered |-> <<>>, antecedent |-> <<>>,
     value |-> <<>>, raised |-> "none"]

Step(op, tok, filtered, antecedent) ==
    [op |-> op, tok |-> tok, filtered |-> filtered, antecedent |-> antecedent,
     value |-> <<>>, raised |-> "none"]

(* a weights argument: whether it is a list, whether all of its elements are
   integers, and the elements (an element that is no integer is written 0) *)
WeightsArg(islist, ints, vals) == [islist |-> islist, ints |-> ints, vals |-> vals]

(* variant: the element types are not asserted *)
WeightsOkNoIntCheck(w) == w.islist /\ Len(w.vals) = NumWeights

(* the three assertions of resolve_anaphora *)
WeightsOk(w) == w.islist /\ w.ints /\ Len(w.vals) = NumWeights

BadWeightArgs ==
    { WeightsArg(TRUE, TRUE, <<1, 2, 3>>),
      WeightsArg(TRUE, TRUE, <<8, 2, 8, 3, 2, 7, 0, 1>>),
      WeightsArg(TRUE, FALSE, <<8, 2, 8, 3, 2, 7, 0>>),
      WeightsArg(FALSE, TRUE, <<8, 2, 8, 3, 2, 7, 0>>) }

noun_tags == {"NN", "NE"}
(* variant: the indefinite pronouns are dispatched as well *)
pronoun_tags_indefinite == {"PPER", "PRELS", "PRF", "PPOSAT", "PDS", "PIS"}

pronoun_tags == {"PPER", "PRELS", "PRF", "PPOSAT", "PDS"}

(* variant: the nominal branch takes every noun, whatever its relation *)
IsNominalAnyRel(t) == node_attrs(t).pos \in noun_tags

IsNominal(t) ==
    node_attrs(t).pos \in noun_tags /\ node_attrs(t).deprel # "PNC"

(* variant: the pronominal branch does not ask for expletives *)
IsPronominalAll(t) ==
    /\ ~IsNominal(t)
    /\ node_attrs(t).pos \in pronoun_tags

IsPronominal(t) ==
    /\ ~IsNominal(t)
    /\ node_attrs(t).pos \in pronoun_tags
    /\ ~is_expletive(t)

NumTokens == Len(Flat(doc))
Cur == Flat(doc)[pos]
Scanning == pc = "scanning" /\ pos <= NumTokens

(* what the head of resolve_anaphora clears once the assertions passed *)
(* variant: the Entity set is kept from run to run *)
ClearedEntitiesKept(ents) == ents

ClearedEntities(ents) == EmptyMap
(* variant: the Resolution Record is kept from run to run *)
ClearedAnaToAnteKept(a2a) == a2a

ClearedAnaToAnte(a2a) == EmptyMap
ClearedMentions(ments) == ments

(* resolve_anaphora up to the loop: the assertions, then the reset *)
ResolveAnaphora(w) ==
    /\ pc \in {"idle", "done", "failed"}
    /\ calls < MaxCalls
    /\ calls' = calls + 1
    /\ last' = NoLast
    /\ IF WeightsOk(w)
       THEN /\ entities' = ClearedEntities(entities)
            /\ ana_to_ante' = ClearedAnaToAnte(ana_to_ante)
            /\ mentions' = ClearedMentions(mentions)
            /\ pc' = "scanning"
            /\ pos' = 1
            /\ err' = "none"
       ELSE /\ pc' = "failed"
            /\ err' = "AssertionError"
            /\ UNCHANGED <<entities, ana_to_ante, mentions, pos>>
    /\ UNCHANGED <<other, doc, weights, max_sent_dist, filtered_results,
                   candidate_report, results>>

Call ==
    \E w \in {WeightsArg(TRUE, TRUE, weights)} \cup BadWeightArgs :
        ResolveAnaphora(w)

(* the loop goes on behind a resolver that returned, and ends with its
   exception otherwise *)
Continue(o, op, tok) ==
    /\ entities' = o.entities
    /\ mentions' = o.mentions
    /\ ana_to_ante' = o.ana_to_ante
    /\ last' = Step(op, tok, o.filtered, o.antecedent)
    /\ err' = o.err
    /\ pc' = IF o.err = "none" THEN pc ELSE "failed"
    /\ pos' = IF o.err = "none" THEN pos + 1 ELSE pos

(* one iteration of the loop: _resolve_nominal_anaphora(token_id) *)
ResolveNominal ==
    /\ Scanning
    /\ IsNominal(Cur)
    /\ Continue(resolve_nominal_anaphora(entities, mentions, ana_to_ante, Cur),
                "nominal", Cur)
    /\ UNCHANGED <<other, doc, weights, max_sent_dist, filtered_results,
                   candidate_report, calls, results>>

(* get_filtered_candidates stores the stage outputs *)
Report(o, tok) ==
    /\ filtered_results' = Put(filtered_results, tok, o.stages)
    /\ candidate_report' =
           [candidate_report EXCEPT
               !.reports = Put(candidate_report.reports, tok, o.stages)]

(* one iteration of the loop: _resolve_pronominal_anaphora(token_id, ...) *)
ResolvePronominal ==
    /\ Scanning
    /\ IsPronominal(Cur)
    /\ UNCHANGED <<other, doc, weights, max_sent_dist, calls, results>>
    /\ IF ~candidate_report.present
       THEN \* filters.py:46 raises AttributeError
            /\ pc' = "failed"
            /\ err' = "AttributeError"
            /\ last' = Step("pronominal", Cur, <<>>, <<>>)
            /\ UNCHANGED <<entities, mentions, ana_to_ante, filtered_results,
                           candidate_report, pos>>
       ELSE /\ Continue(resolve_pronominal_anaphora(entities, mentions,
                            ana_to_ante, weights, max_sent_dist, Cur),
                        "pronominal", Cur)
            /\ Report(resolve_pronominal_anaphora(entities, mentions,
                          ana_to_ante, weights, max_sent_dist, Cur), Cur)

(* one iteration of the loop for a token neither branch takes *)
SkipToken ==
    /\ Scanning
    /\ ~IsNominal(Cur)
    /\ ~IsPronominal(Cur)
    /\ pos' = pos + 1
    /\ last' = Step("skip", Cur, <<>>, <<>>)
    /\ UNCHANGED <<other, doc, weights, max_sent_dist, entities, mentions, ana_to_ante,
                   filtered_results, candidate_report, pc, err, calls, results>>

(* the loop is exhausted: resolve_anaphora returns *)
Return ==
    /\ pc = "scanning"
    /\ pos > NumTokens
    /\ pc' = "done"
    /\ results' = Append(results, [entities |-> entities,
                                   ana_to_ante |-> ana_to_ante])
    /\ UNCHANGED <<other, doc, weights, max_sent_dist, entities, mentions, ana_to_ante,
                   filtered_results, candidate_report, pos, err, calls, last>>

Next == Call \/ ResolveNominal \/ ResolvePronominal \/ SkipToken \/ Return

----------------------------------------------------------------------------
(* The documents and arguments of the model *)

RECURSIVE BuildFrom(_, _, _, _)
BuildFrom(flat, cuts, i, cur) ==
    IF i > Len(flat) THEN <<cur>>
    ELSE IF i \in cuts
         THEN <<Append(cur, flat[i])>> \o BuildFrom(flat, cuts, i + 1, <<>>)
         ELSE BuildFrom(flat, cuts, i + 1, Append(cur, flat[i]))

(* the tokens flat, cut into sentences after the positions in cuts, each
   sentence behind pw filler tokens, the whole behind ps filler sentences *)
BuildDoc(flat, cuts, ps, pw) ==
    [s \in 1..ps |-> <<Filler>>]
    \o BuildFrom(flat, cuts, 1, [w \in 1..pw |-> Filler])

Kinds == {"Hund", "Er", "er", "sich", "der", "komma"}

(* weights, max_sent_dist, and whether the caller gave the instance a
   candidate_report (Pocores.__init__ sets none) *)
Configs ==
    { <<WEIGHTS, MAX_SENT_DIST, TRUE>>,
      <<<<0, 0, 0, 0, 0, 0, 0>>, 1, TRUE>>,
      <<WEIGHTS, MAX_SENT_DIST, FALSE>> }

(* the program has built one instance only *)
NoInstance == <<>>

(* Pocores.__init__ on a document of the given kinds *)
InitWith(kinds, pads, configs) ==
    /\ other = NoInstance
    /\ \E n \in 1..MaxTokens :
         \E flat \in [1..n -> kinds] :
           \E cuts \in SUBSET (1..(n - 1)) :
             \E pad \in pads :
               doc = BuildDoc(flat, cuts, pad[1], pad[2])
    /\ \E cfg \in configs :
         /\ weights = cfg[1]
         /\ max_sent_dist = cfg[2]
         /\ candidate_report = [present |-> cfg[3], reports |-> EmptyMap]
    /\ entities = EmptyMap
    /\ mentions = EmptyMap
    /\ ana_to_ante = EmptyMap
    /\ filtered_results = EmptyMap
    /\ pc = "idle"
    /\ pos = 1
    /\ err = "none"
    /\ calls = 0
    /\ last = NoLast
    /\ results = <<>>

Init == InitWith(Kinds, {<<0, 0>>}, Configs)

Spec == Init /\ [][Next]_vars

(* documents with token ids of two digits: eight filler tokens in front of
   every sentence, or eight filler sentences in front of the document *)
KindsLong == {"Hund", "Er", "er", "der", "komma"}

ConfigsLong ==
    { <<WEIGHTS, MAX_SENT_DIST, TRUE>>,
      <<<<0, 0, 0, 0, 0, 0, 0>>, MAX_SENT_DIST, TRUE>> }

InitLong == InitWith(KindsLong, {<<0, 8>>, <<8, 0>>}, ConfigsLong)

SpecLong == InitLong /\ [][Next]_vars

----------------------------------------------------------------------------
(* Properties *)

ChainPositions ==
    UNION {{<<e, i>> : i \in 1..Len(entities[e])} : e \in DOMAIN entities}

AllMentions == {entities[p[1]][p[2]] : p \in ChainPositions}

(* the greatest token of a non-empty set in document order *)
Latest(S) == CHOOSE c \in S : \A d \in S : d = c \/ DocLess(d, c)

(* C1: partition invariant.  In every state every key of entities owns a
   non-empty chain that starts with the key, and no token id occurs twice in
   the chains (neither in two chains nor twice in one). *)
C1_Partition ==
    /\ \A e \in DOMAIN entities : entities[e] # <<>> /\ entities[e][1] = e
    /\ \A p, q \in ChainPositions :
          p # q => entities[p[1]][p[2]] # entities[q[1]][q[2]]

(* C2: Mention Map consistency.  In every state a token id is a key of
   mentions iff it is an element of the chain entities[mentions[t]], and it is
   an element of no other chain. *)
C2_MentionMapConsistent ==
    /\ \A t \in DOMAIN mentions :
          /\ mentions[t] \in DOMAIN entities
          /\ t \in Range(entities[mentions[t]])
    /\ \A p \in ChainPositions :
          /\ entities[p[1]][p[2]] \in DOMAIN mentions
          /\ mentions[entities[p[1]][p[2]]] = p[1]

(* C3: run reset.  When the first token of a run is about to be examined the
   Entity set, the Mention Map and the Resolution Record are empty. *)
C3_RunReset ==
    (pc = "scanning" /\ pos = 1) =>
        /\ entities = EmptyMap
        /\ mentions = EmptyMap
        /\ ana_to_ante = EmptyMap

(* C4: determinism.  Two completed runs on the same instance, with the same
   document, weights and max_sent_dist, end with the same Entity set and the
   same Resolution Record. *)
C4_Determinism ==
    \A i, j \in 1..Len(results) : results[i] = results[j]

(* C5: a run raises no error except the assertion on the weights: whatever
   the document, a call with a valid weight list never ends in an exception. *)
C5_NoRunError == err \in {"none", "AssertionError"}

(* the only other exception a run ends with is the AttributeError of
   get_filtered_candidates on an instance without candidate_report *)
OnlyAttributeError == err \in {"none", "AssertionError", "AttributeError"}

(* C6: weight validation.  A call with weights that are not a list of exactly
   7 integers fails with the assertion error, processes no token, and leaves
   the Entity set, the Mention Map and the Resolution Record as they were. *)
C6_WeightValidation ==
    [][\A w \in BadWeightArgs :
          ResolveAnaphora(w) =>
              /\ pc' = "failed"
              /\ err' = "AssertionError"
              /\ last' = NoLast
              /\ UNCHANGED <<entities, mentions, ana_to_ante, pos>>]_vars

(* a rejected call that found a registry filled by an earlier run *)
C6_Witness ==
    /\ pc = "failed"
    /\ err = "AssertionError"
    /\ last = NoLast
    /\ entities # EmptyMap
    /\ ana_to_ante # EmptyMap

(* C7: unresolved noun fallback.  A token that nominal resolution processed
   and for which no candidate had the same lemma is a singleton entity right
   after its step: entities[t] = [t] and mentions[t] = t. *)
C7_NounFallback ==
    (last.op = "nominal" /\ last.antecedent = <<>>) =>
        /\ last.tok \in DOMAIN entities
        /\ entities[last.tok] = <<last.tok>>
        /\ last.tok \in DOMAIN mentions
        /\ mentions[last.tok] = last.tok

(* C8: fallback guarantee for pronouns.  When the filters returned an empty
   list for a pronoun, right after its step its chain is exactly the pronoun,
   it maps to itself, and the Resolution Record is as before the step. *)
C8_PronounFallback ==
    [][(/\ Scanning
        /\ IsPronominal(Cur)
        /\ candidate_report.present
        /\ get_filtered_candidates(entities, get_candidates(entities), Cur,
                                   max_sent_dist).binding = <<>>)
       => /\ Cur \in DOMAIN entities'
          /\ entities'[Cur] = <<Cur>>
          /\ Cur \in DOMAIN mentions'
          /\ mentions'[Cur] = Cur
          /\ ana_to_ante' = ana_to_ante
          /\ pc' = "scanning"]_vars

(* a pronoun that had candidates, none of which passed the filters, and is
   now a singleton *)
C8_Witness ==
    /\ last.op = "pronominal"
    /\ err = "none"
    /\ last.filtered = <<>>
    /\ filtered_results[last.tok].distance # <<>>
    /\ entities[last.tok] = <<last.tok>>
    /\ mentions[last.tok] = last.tok
    /\ last.tok \notin DOMAIN ana_to_ante

(* the candidates that have the lemma of token t *)
SameLemma(ents, t) ==
    {c \in Range(get_candidates(ents)) : node_attrs(c).lemma = node_attrs(t).lemma}

(* C9: nominal resolution.  When some candidate has the lemma of the noun,
   the antecedent is the latest such candidate in document order; the noun is
   appended to the chain of the entity that owns this candidate and mapped to
   that entity; nothing else changes in the registry. *)
C9_NominalResolution ==
    [][(Scanning /\ IsNominal(Cur) /\ SameLemma(entities, Cur) # {})
       => /\ last'.antecedent = <<Latest(SameLemma(entities, Cur))>>
          /\ mentions' =
               Put(mentions, Cur, mentions[Latest(SameLemma(entities, Cur))])
          /\ entities' =
               [entities EXCEPT
                   ![mentions[Latest(SameLemma(entities, Cur))]] =
                       Append(@, Cur)]
          /\ ana_to_ante' = ana_to_ante]_vars

(* 'Hund' in sentence 3 has joined the entity of 'Hund' in sentence 1 *)
C9_Witness ==
    /\ last.op = "nominal"
    /\ last.tok = <<3, 1>>
    /\ last.antecedent = <<<<1, 1>>>>
    /\ node_attrs(<<3, 1>>).lemma = "Hund"
    /\ entities[<<1, 1>>] = <<<<1, 1>>, <<3, 1>>>>
    /\ mentions[<<3, 1>>] = <<1, 1>>

(* a noun with two candidates of its lemma in two entities has joined the
   entity of the later one *)
C9_WitnessTwoEntities ==
    /\ last.op = "nominal"
    /\ last.antecedent # <<>>
    /\ \E c \in DOMAIN mentions :
          /\ node_attrs(c).lemma = node_attrs(last.tok).lemma
          /\ mentions[c] # mentions[last.tok]

(* C10: relative/demonstrative regime.  For a PRELS or PDS anaphora with a
   non-empty filtered list the chosen antecedent is the filtered candidate
   that is latest in document order. *)
C10_RelativeLatest ==
    (/\ last.op = "pronominal"
     /\ node_attrs(last.tok).pos \in {"PRELS", "PDS"}
     /\ last.filtered # <<>>)
    => last.antecedent = <<Latest(Range(last.filtered))>>

----------------------------------------------------------------------------
(* The scoring regime *)

(* what the filters return for the token the loop is at *)
FilteredNow ==
    get_filtered_candidates(entities, get_candidates(entities), Cur,
                            max_sent_dist)

(* the loop is at a personal, reflexive or possessive pronoun whose filtered
   list is not empty *)
ScoringStep ==
    /\ Scanning
    /\ IsPronominal(Cur)
    /\ candidate_report.present
    /\ node_attrs(Cur).pos \in {"PPER", "PRF", "PPOSAT"}
    /\ FilteredNow.binding # <<>>

(* the filtered candidates of maximum score *)
TopScored(fr, anaphora) ==
    {c \in Range(fr.binding) :
        \A d \in Range(fr.binding) :
            Score(fr.entities, mentions, weights, d, anaphora)
                <= Score(fr.entities, mentions, weights, c, anaphora)}

(* C11: tie-break of the scoring regime.  For a PPER, PRF or PPOSAT anaphora
   with a non-empty filtered list the chosen antecedent is, among the
   candidates that share the maximum score, the one that is latest in
   document order (sentence index, then word position, compared as
   numbers). *)
C11_TieBreak ==
    [][ScoringStep =>
          last'.antecedent = <<Latest(TopScored(FilteredNow, Cur))>>]_vars

(* the score of candidate c for the anaphora, in millionths, from the token
   attributes and the registry *)
WeightedSum(c, anaphora) ==
    1000000 *
      ( (IF /\ node_attrs(c).deprel = node_attrs(anaphora).deprel
            /\ node_attrs(c).deprel \in {"SB", "OA", "DA"}
         THEN weights[1] ELSE 0)
      + (IF node_attrs(c).deprel = "SB" THEN weights[2] ELSE 0)
      + (IF node_attrs(c).deprel = "OA" THEN weights[3] ELSE 0)
      + (IF node_attrs(c).deprel = "DA" THEN weights[4] ELSE 0)
      - weights[6] * Abs(sent_pos(c) - sent_pos(anaphora))
      - weights[7] * get_depth(c) )
    + weights[5] * LogMicro(Len(entities[mentions[c]]))

(* C12: selection of the scoring regime.  For a PPER, PRF or PPOSAT anaphora
   with a non-empty filtered list the chosen antecedent is a filtered
   candidate whose score w0*parallel + w1*SB + w2*OA + w3*DA
   + w4*ln(chain length) - w5*sentence distance - w6*depth is not lower than
   the score of any other filtered candidate. *)
C12_MaxScore ==
    [][ScoringStep =>
          /\ Len(last'.antecedent) = 1
          /\ last'.antecedent[1] \in Range(FilteredNow.binding)
          /\ \A d \in Range(FilteredNow.binding) :
                WeightedSum(d, Cur) <= WeightedSum(last'.antecedent[1], Cur)]_vars

(* a personal pronoun was given an antecedent that is not the closest of its
   filtered candidates *)
C12_Witness ==
    /\ last.op = "pronominal"
    /\ node_attrs(last.tok).pos \in {"PPER", "PRF", "PPOSAT"}
    /\ err = "none"
    /\ Len(last.filtered) >= 2
    /\ last.antecedent # <<>>
    /\ last.antecedent # <<last.filtered[Len(last.filtered)]>>

----------------------------------------------------------------------------
(* The binding domain and the binding rules *)

(* the left boundary of the clause of the anaphora: the greatest position up
   to the anaphora whose token has relation PUNC or CD, else 1 *)
ClauseLeft(anaphora) ==
    IF \E q \in 1..word_pos(anaphora) : IsBoundaryRel(<<sent_pos(anaphora), q>>)
    THEN SetMax({q \in 1..word_pos(anaphora) :
                    IsBoundaryRel(<<sent_pos(anaphora), q>>)})
    ELSE 1

(* the right boundary: the smallest position from the anaphora on whose token
   has relation PUNC or CD, else the length of the sentence *)
ClauseRight(anaphora) ==
    IF \E q \in word_pos(anaphora)..Len(doc[sent_pos(anaphora)]) :
          IsBoundaryRel(<<sent_pos(anaphora), q>>)
    THEN SetMin({q \in word_pos(anaphora)..Len(doc[sent_pos(anaphora)]) :
                    IsBoundaryRel(<<sent_pos(anaphora), q>>)})
    ELSE Len(doc[sent_pos(anaphora)])

(* token t lies in the sentence of the anaphora between the two boundaries *)
InsideClause(t, anaphora) ==
    /\ sent_pos(t) = sent_pos(anaphora)
    /\ ClauseLeft(anaphora) <= word_pos(t)
    /\ word_pos(t) <= ClauseRight(anaphora)

(* the loop is at a pronoun of the given tag on an instance whose filters run *)
FilterStep(tag) ==
    /\ Scanning
    /\ IsPronominal(Cur)
    /\ candidate_report.present
    /\ node_attrs(Cur).pos = tag

(* C13: binding rule R2.  For a PPER anaphora, a candidate that reached the
   binding stage and is neither PRF nor PPOSAT is rejected by the binding
   stage whenever some mention in the chain of the candidate's entity lies
   inside the clause of the anaphora, whether the candidate is the first
   mention of its entity or a later one. *)
C13_BindingR2 ==
    [][FilterStep("PPER") =>
          \A c \in Range(FilteredNow.agreement) :
              (/\ node_attrs(c).pos \notin {"PRF", "PPOSAT"}
               /\ \E m \in Range(entities[mentions[c]]) : InsideClause(m, Cur))
              => c \notin Range(filtered_results'[Cur].binding)]_vars

(* the reflexive pronouns the filters were applied to *)
FilteredReflexives ==
    {t \in DOMAIN filtered_results : node_attrs(t).pos = "PRF"}

(* C14: binding rule R1.  For a PRF anaphora a candidate that reached the
   binding stage passes it iff it is in the sentence of the anaphora with its
   word position inside the clause of the anaphora; so no candidate of
   another sentence is in the binding-stage output, and a candidate of the
   same clause survives. *)
C14_BindingR1 ==
    \A t \in FilteredReflexives :
        /\ \A c \in Range(filtered_results[t].agreement) :
              c \in Range(filtered_results[t].binding) <=> InsideClause(c, t)
        /\ \A c \in Range(filtered_results[t].binding) :
              sent_pos(c) = sent_pos(t)

(* a reflexive pronoun with a candidate that survived the binding stage and a
   candidate that the binding stage rejected *)
C14_Witness ==
    \E t \in FilteredReflexives :
        /\ filtered_results[t].binding # <<>>
        /\ \E c \in Range(filtered_results[t].agreement) :
              c \notin Range(filtered_results[t].binding)

----------------------------------------------------------------------------
(* Calls of filters.is_bound from outside a run *)

(* filters.is_bound(pocores, antecedent_id, anaphora_id), called between two
   runs: the returned value is kept in last.op, and principles 2 and 3 leave
   their reads in entities *)
IsBound(antecedent_id, anaphora_id) ==
    /\ pc \in {"idle", "done", "failed"}
    /\ antecedent_id # anaphora_id
    /\ last' = Step(IF is_bound(entities, antecedent_id, anaphora_id)
                    THEN "is_bound_true" ELSE "is_bound_false",
                    anaphora_id, <<>>, <<antecedent_id>>)
    /\ entities' = is_bound_entities(entities, antecedent_id, anaphora_id)
    /\ UNCHANGED <<other, doc, weights, max_sent_dist, mentions, ana_to_ante,
                   filtered_results, candidate_report, pc, pos, err, calls,
                   results>>

IsBoundCall ==
    \E antecedent_id \in Range(Flat(doc)) :
        \E anaphora_id \in Range(Flat(doc)) :
            IsBound(antecedent_id, anaphora_id)

NextDirect == Next \/ IsBoundCall

KindsDirect == {"Hund", "er", "sich", "komma"}

ConfigsDirect == { <<WEIGHTS, MAX_SENT_DIST, TRUE>> }

InitDirect == InitWith(KindsDirect, {<<0, 0>>}, ConfigsDirect)

SpecDirect == InitDirect /\ [][NextDirect]_vars

(* the pairs is_bound was called with from outside a run *)
DirectCall == last.op \in {"is_bound_true", "is_bound_false"}

(* the two boundaries as is_bound computes them are those of the clause *)
BoundariesAgree ==
    \A t \in Range(Flat(doc)) :
        anaphora_boundaries(t) = <<ClauseLeft(t), ClauseRight(t)>>

(* C15: binding domain.  The boundaries is_bound computes for an anaphora are
   the greatest position q <= p with relation PUNC or CD (else 1) and the
   smallest such position q >= p (else the sentence length n), and a token of
   the sentence counts as inside the clause exactly when its word position
   lies between the two, the last token of the sentence included: for a
   reflexive anaphora is_bound accepts an antecedent iff it is inside the
   clause. *)
C15_BindingDomain ==
    /\ BoundariesAgree
    /\ (DirectCall /\ node_attrs(last.tok).pos = "PRF")
           => (last.op = "is_bound_true"
                  <=> InsideClause(last.antecedent[1], last.tok))

(* the chain of the entity that owns token t, <<>> if no entity owns it *)
OwningChain(t) ==
    IF t \in DOMAIN mentions /\ mentions[t] \in DOMAIN entities
    THEN entities[mentions[t]]
    ELSE <<>>

(* C16: binding rule R3.  For an NN or NE anaphora is_bound rejects a
   candidate whenever some mention in the chain of the candidate's entity
   lies in the sentence of the anaphora, whether the candidate is the first
   mention of its entity or a later one. *)
C16_BindingR3 ==
    (/\ DirectCall
     /\ node_attrs(last.tok).pos \in {"NN", "NE"}
     /\ \E m \in Range(OwningChain(last.antecedent[1])) :
           sent_pos(m) = sent_pos(last.tok))
    => last.op = "is_bound_false"

----------------------------------------------------------------------------
(* The filter pipeline *)

(* sequence a holds elements of sequence b, in the order they have in b *)
RECURSIVE IsSubSeq(_, _)
IsSubSeq(a, b) ==
    IF a = <<>> THEN TRUE
    ELSE IF b = <<>> THEN FALSE
    ELSE IF a[1] = b[1] THEN IsSubSeq(Tail(a), Tail(b))
    ELSE IsSubSeq(a, Tail(b))

(* the tokens of a sequence are in document order *)
InDocOrder(seq) ==
    \A i, j \in 1..Len(seq) : i < j => DocLess(seq[i], seq[j])

(* C17: pipeline monotonicity.  For every anaphora given to
   get_filtered_candidates the recorded stage outputs satisfy
   binding <= agreement <= non_reflexive <= distance <= full candidate list,
   every stage keeps its candidates in document order, and the list returned
   to the resolver is the output of the binding stage. *)
C17_PipelineMonotone ==
    [][(Scanning /\ IsPronominal(Cur) /\ candidate_report.present)
       => /\ IsSubSeq(filtered_results'[Cur].binding,
                      filtered_results'[Cur].agreement)
          /\ IsSubSeq(filtered_results'[Cur].agreement,
                      filtered_results'[Cur].non_reflexive)
          /\ IsSubSeq(filtered_results'[Cur].non_reflexive,
                      filtered_results'[Cur].distance)
          /\ IsSubSeq(filtered_results'[Cur].distance, get_candidates(entities))
          /\ InDocOrder(filtered_results'[Cur].distance)
          /\ InDocOrder(filtered_results'[Cur].non_reflexive)
          /\ InDocOrder(filtered_results'[Cur].agreement)
          /\ InDocOrder(filtered_results'[Cur].binding)
          /\ last'.filtered = filtered_results'[Cur].binding]_vars

(* an anaphora whose pipeline dropped a candidate and kept another *)
C17_Witness ==
    /\ last.op = "pronominal"
    /\ err = "none"
    /\ last.filtered # <<>>
    /\ last.filtered = filtered_results[last.tok].binding
    /\ Len(filtered_results[last.tok].binding)
           < Len(filtered_results[last.tok].distance)

----------------------------------------------------------------------------
(* Expletives and dispatch *)

(* documents with the verb 'gibt' (lemma geben, root of its sentence), the
   pronoun 'es', a noun written 'Es' and a name-internal proper noun *)
KindsExpletive == {"gibt", "es", "EsNoun", "Hund", "Don"}

InitExpletive == InitWith(KindsExpletive, {<<0, 0>>}, Configs)

SpecExpletive == InitExpletive /\ [][Next]_vars

(* token t is nowhere in the registry *)
Unregistered(t) ==
    /\ t \notin DOMAIN entities
    /\ t \notin AllMentions
    /\ t \notin DOMAIN mentions
    /\ t \notin DOMAIN ana_to_ante
    /\ \A a \in DOMAIN ana_to_ante : ana_to_ante[a] # t

(* C18 as stated: expletive suppression.  A token written 'es' or 'Es' with a
   governing token whose lemma is an expletive verb is never a key of
   entities, never in a chain, never in mentions and never in ana_to_ante,
   whatever its part-of-speech tag. *)
C18_ExpletiveAnyTag ==
    \A t \in Range(Flat(doc)) : is_expletive(t) => Unregistered(t)

(* C18 amended: the same for every such token that is not dispatched to
   nominal resolution, i.e. whose tag is not NN/NE or whose relation is PNC. *)
C18_ExpletiveSuppressed ==
    \A t \in Range(Flat(doc)) :
        (is_expletive(t) /\ ~IsNominal(t)) => Unregistered(t)

(* the loop has just skipped an expletive pronoun while the registry holds an
   entity *)
C18_Witness ==
    /\ last.op = "skip"
    /\ is_expletive(last.tok)
    /\ node_attrs(last.tok).pos \in pronoun_tags
    /\ entities # EmptyMap
    /\ Unregistered(last.tok)

(* C19: dispatch and skip.  The token the loop is at goes to nominal
   resolution iff its tag is NN or NE and its relation is not PNC; otherwise
   it goes to pronominal resolution iff its tag is PPER, PRELS, PRF, PPOSAT
   or PDS and it is not expletive; the step for any other token leaves
   entities, mentions and ana_to_ante unchanged. *)
C19_Dispatch ==
    [][Scanning =>
          /\ last'.tok = Cur
          /\ last'.op = "nominal"
                <=> (/\ node_attrs(Cur).pos \in {"NN", "NE"}
                     /\ node_attrs(Cur).deprel # "PNC")
          /\ last'.op = "pronominal"
                <=> (/\ ~(/\ node_attrs(Cur).pos \in {"NN", "NE"}
                          /\ node_attrs(Cur).deprel # "PNC")
                     /\ node_attrs(Cur).pos
                            \in {"PPER", "PRELS", "PRF", "PPOSAT", "PDS"}
                     /\ ~is_expletive(Cur))
          /\ last'.op \notin {"nominal", "pronominal"}
                => /\ last'.op = "skip"
                   /\ UNCHANGED <<entities, mentions, ana_to_ante>>]_vars

(* the loop has just passed over a proper noun with relation PNC while the
   registry holds an entity *)
C19_Witness ==
    /\ last.op = "skip"
    /\ node_attrs(last.tok).pos = "NE"
    /\ node_attrs(last.tok).deprel = "PNC"
    /\ entities # EmptyMap
    /\ Unregistered(last.tok)

----------------------------------------------------------------------------
(* Morphological agreement *)

(* documents whose tokens differ in gender (Hund, sie), in number (Hund,
   seine) and in person (ich), or lack a feature (sie, ich, komma) *)
KindsMorph == {"Hund", "er", "sie", "seine", "ich", "komma"}

ConfigsMorph == { <<WEIGHTS, MAX_SENT_DIST, TRUE>> }

InitMorph == InitWith(KindsMorph, {<<0, 0>>}, ConfigsMorph)

SpecMorph == InitMorph /\ [][Next]_vars

(* both tokens carry the feature, with different values *)
Disagree(c, t, feat) ==
    /\ node_attrs(c)[feat] # NoFeat
    /\ node_attrs(t)[feat] # NoFeat
    /\ node_attrs(c)[feat] # node_attrs(t)[feat]

(* C20: morphological agreement.  A candidate that reached the agreement
   stage passes it iff for none of the features gender, person and number
   both the candidate and the anaphora carry the feature with different
   values; a feature that one of the two tokens lacks rejects nothing. *)
C20_MorphAgreement ==
    \A t \in DOMAIN filtered_results :
        \A c \in Range(filtered_results[t].non_reflexive) :
            c \in Range(filtered_results[t].agreement)
                <=> /\ ~Disagree(c, t, "gender")
                    /\ ~Disagree(c, t, "person")
                    /\ ~Disagree(c, t, "number")

(* an anaphora with a candidate that passed the agreement stage although one
   of the two lacks a feature, and a candidate that the stage rejected *)
C20_Witness ==
    \E t \in DOMAIN filtered_results :
        /\ \E c \in Range(filtered_results[t].agreement) :
              \E feat \in {"gender", "person", "number"} :
                  node_attrs(c)[feat] = NoFeat \/ node_attrs(t)[feat] = NoFeat
        /\ \E c \in Range(filtered_results[t].non_reflexive) :
              c \notin Range(filtered_results[t].agreement)

----------------------------------------------------------------------------
(* Calls of preferences.get_chain_length from outside a run *)

(* the value get_chain_length returns, <<>> when it raises *)
ChainLengthValue(ents, ments, antecedent_id) ==
    IF ChainLengthDefined(ments, antecedent_id)
    THEN <<get_chain_length(ents, ments, antecedent_id)>>
    ELSE <<>>

(* pocores.mentions is a plain dict: a token it does not hold is a KeyError *)
ChainLengthRaised(ments, antecedent_id) ==
    IF ChainLengthDefined(ments, antecedent_id) THEN "none" ELSE "KeyError"

(* pocores.entities[first_mention] is a read of a defaultdict *)
ChainLengthEntities(ents, ments, antecedent_id) ==
    IF ChainLengthDefined(ments, antecedent_id)
    THEN DefaultTouch(ents, ments[antecedent_id])
    ELSE ents

(* preferences.get_chain_length(pocores, antecedent_id), called between two
   runs *)
GetChainLength(antecedent_id) ==
    /\ pc \in {"idle", "done", "failed"}
    /\ last' = [Step("get_chain_length", antecedent_id, <<>>, <<>>)
                  EXCEPT !.value = ChainLengthValue(entities, mentions,
                                                    antecedent_id),
                         !.raised = ChainLengthRaised(mentions, antecedent_id)]
    /\ entities' = ChainLengthEntities(entities, mentions, antecedent_id)
    /\ UNCHANGED <<other, doc, weights, max_sent_dist, mentions, ana_to_ante,
                   filtered_results, candidate_report, pc, pos, err, calls,
                   results>>

GetChainLengthCall ==
    \E antecedent_id \in Range(Flat(doc)) : GetChainLength(antecedent_id)

NextPrefs == Next \/ GetChainLengthCall

KindsPrefs == {"Hund", "er", "komma"}

ConfigsPrefs == { <<WEIGHTS, MAX_SENT_DIST, TRUE>> }

InitPrefs == InitWith(KindsPrefs, {<<0, 0>>}, ConfigsPrefs)

SpecPrefs == InitPrefs /\ [][NextPrefs]_vars

ChainLengthCall == last.op = "get_chain_length"

(* C21: chain_length.  A call of get_chain_length raises nothing and returns
   the number of mentions in the chain of the entity that owns the token, and
   0 for a token the Mention Map does not hold. *)
C21_ChainLength ==
    ChainLengthCall =>
        /\ last.raised = "none"
        /\ last.value = <<Len(OwningChain(last.tok))>>

(* the first half alone: a token the Mention Map holds *)
C21_ChainLengthKnown ==
    (ChainLengthCall /\ last.tok \in DOMAIN mentions) =>
        /\ last.raised = "none"
        /\ last.value = <<Len(OwningChain(last.tok))>>

----------------------------------------------------------------------------
(* The candidates of the scorer *)

(* C22: every token _get_candidates returns is in the Mention Map and the
   chain of its owning entity is not empty, so get_chain_length returns at
   least 1 for it and neither get_chain_length nor math.log raises in the
   scoring loop, in the first run of an instance and in a later one. *)
C22_ChainLengthPositive ==
    /\ \A c \in Range(get_candidates(entities)) :
          /\ ChainLengthDefined(mentions, c)
          /\ mentions[c] \in DOMAIN entities
          /\ get_chain_length(entities, mentions, c) >= 1
    /\ err \notin {"KeyError", "ValueError"}

(* a personal pronoun was scored against a candidate in the second run *)
C22_Witness ==
    /\ calls = 2
    /\ last.op = "pronominal"
    /\ node_attrs(last.tok).pos = "PPER"
    /\ last.antecedent # <<>>
    /\ get_chain_length(entities, mentions, last.antecedent[1]) >= 2

----------------------------------------------------------------------------
(* Attachment *)

(* a resolver attached the current token to an antecedent *)
AttachStep ==
    /\ ResolveNominal \/ ResolvePronominal
    /\ last'.antecedent # <<>>
    /\ err' = "none"

(* the token goes to the end of the chain of the entity that owns the
   antecedent, and is mapped to that entity *)
AttachedToOwner ==
    AttachStep =>
        /\ last'.antecedent[1] \in DOMAIN mentions
        /\ mentions[last'.antecedent[1]] \in DOMAIN entities
        /\ entities'[mentions[last'.antecedent[1]]]
              = Append(entities[mentions[last'.antecedent[1]]], Cur)
        /\ mentions' = Put(mentions, Cur, mentions[last'.antecedent[1]])

(* every value of the Mention Map is mapped to itself *)
MentionValuesAreRoots ==
    \A t \in DOMAIN mentions :
        /\ mentions[t] \in DOMAIN mentions
        /\ mentions[mentions[t]] = mentions[t]

(* every value of the Mention Map is the id of an entity *)
MentionValuesAreEntities ==
    \A t \in DOMAIN mentions : mentions[t] \in DOMAIN entities

(* C23: attachment goes to the owning entity.  A nominal or pronominal
   attachment appends the anaphora to the chain of the entity that owns the
   antecedent and maps it to that entity, and in every state each value of
   the Mention Map is an entity id e with mentions[e] = e. *)
C23_AttachToOwner ==
    /\ [][AttachedToOwner]_vars
    /\ [](MentionValuesAreRoots /\ MentionValuesAreEntities)

C23_AttachAction == [][AttachedToOwner]_vars

----------------------------------------------------------------------------
(* The Resolution Record *)

(* the tokens the loop of the current run has dealt with *)
Visited == {Flat(doc)[i] : i \in 1..(pos - 1)}

(* the pronouns the current run resolved with a non-empty filtered list *)
ResolvedWithCandidates ==
    {t \in Visited :
        /\ IsPronominal(t)
        /\ t \in DOMAIN filtered_results
        /\ filtered_results[t].binding # <<>>}

SameChain(t, u) ==
    \E e \in DOMAIN entities :
        t \in Range(entities[e]) /\ u \in Range(entities[e])

(* C24: Resolution Record.  In every state ana_to_ante has an entry for a
   token iff the token is a pronoun the current run resolved with a non-empty
   filtered list (no noun and no pronoun registered as a singleton has one),
   and the anaphora and the antecedent of every entry are in one chain. *)
C24_ResolutionRecord ==
    /\ pc # "idle" => DOMAIN ana_to_ante = ResolvedWithCandidates
    /\ pc = "idle" => ana_to_ante = EmptyMap
    /\ \A t \in DOMAIN ana_to_ante : SameChain(t, ana_to_ante[t])

(* a second run is over in which one pronoun was attached and recorded, one
   pronoun became a singleton, and a noun was handled *)
C24_Witness ==
    /\ calls = 2
    /\ pc = "done"
    /\ ana_to_ante # EmptyMap
    /\ \E t \in Visited :
          IsPronominal(t) /\ t \notin DOMAIN ana_to_ante /\ t \in DOMAIN entities
    /\ \E t \in Visited : IsNominal(t)

----------------------------------------------------------------------------
(* The loop of resolve_anaphora *)

(* the two for statements go on by themselves once a call has started them *)
Loop == ResolveNominal \/ ResolvePronominal \/ SkipToken \/ Return

KindsLive == {"Hund", "er", "komma"}

ConfigsLive ==
    { <<WEIGHTS, MAX_SENT_DIST, TRUE>>, <<WEIGHTS, MAX_SENT_DIST, FALSE>> }

InitLive == InitWith(KindsLive, {<<0, 0>>}, ConfigsLive)

(* what a step of Loop does to the position of the run: the steps of a
   behaviour that change pc or pos from a scanning state are the steps of
   Loop (LoopStepIsLoop), and both are enabled exactly in the scanning
   states, so fairness of LoopStep is fairness of Loop *)
LoopStep ==
    /\ pc = "scanning"
    /\ pc' \in {"scanning", "done", "failed"}
    /\ pos' \in {pos, pos + 1}
    /\ <<pc', pos'>> # <<pc, pos>>

LoopStepIsLoop == [][LoopStep <=> Loop]_vars

(* the interpreter goes on with the loop as long as it has an iteration or
   the return to execute *)
SpecLive == InitLive /\ [][Next]_vars /\ WF_<<pc, pos>>(LoopStep)

(* one step of a run: the iteration for the token at pos, which goes on to
   the next token or ends the run with an exception, or the return behind
   the last token *)
SinglePassStep ==
    pc = "scanning" =>
        \/ /\ pos <= NumTokens
           /\ last'.tok = Cur
           /\ \/ pc' = "scanning" /\ pos' = pos + 1
              \/ pc' = "failed" /\ pos' = pos
        \/ /\ pos = NumTokens + 1
           /\ pc' = "done"
           /\ pos' = pos
           /\ last' = last

(* a call with valid weights starts the loop at the first token *)
RunStart == (pc # "scanning" /\ pc' = "scanning") => pos' = 1

(* C25: single pass.  A run with valid weights takes the tokens of the
   document one by one in document order, one step for each, never goes back
   to a token, and eventually reaches Done. *)
C25_SinglePass ==
    /\ [][SinglePassStep /\ RunStart]_vars
    /\ (pc = "scanning") ~> (pc = "done")

(* the order of the pass alone *)
C25_SinglePassOrder == [][SinglePassStep /\ RunStart]_vars

(* the run of an instance that has a candidate_report reaches Done *)
C25_DoneWithReport ==
    (pc = "scanning" /\ candidate_report.present) ~> (pc = "done")

----------------------------------------------------------------------------
(* Calls of Pocores._get_candidates from outside a run *)

(* _get_candidates iterates over the keys entities has and reads their
   chains: it inserts nothing *)
GetCandidatesCall ==
    /\ pc \in {"idle", "done", "failed"}
    /\ last' = [Step("get_candidates", <<>>, <<>>, <<>>)
                  EXCEPT !.value = <<get_candidates(entities)>>]
    /\ UNCHANGED <<other, doc, weights, max_sent_dist, entities, mentions,
                   ana_to_ante, filtered_results, candidate_report, pc, pos,
                   err, calls, results>>

NextCands == Next \/ GetCandidatesCall

KindsCands == {"Hund", "er", "komma"}

(* token ids of one and of two digits *)
InitCands ==
    InitWith(KindsCands, {<<0, 0>>, <<0, 8>>, <<8, 0>>}, ConfigsLong)

SpecCands == InitCands /\ [][NextCands]_vars

(* t comes before u: sentence index first, then word position *)
Before(t, u) ==
    \/ sent_pos(t) < sent_pos(u)
    \/ sent_pos(t) = sent_pos(u) /\ word_pos(t) < word_pos(u)

(* c lists every element of every chain once, ascending *)
CandidatesExact(c) ==
    /\ Range(c) = AllMentions
    /\ Len(c) = Cardinality(ChainPositions)
    /\ \A i, j \in 1..Len(c) : i < j => Before(c[i], c[j])

(* C26: _get_candidates returns exactly the elements of all entity chains,
   every mention once and nothing else, sorted by sentence index and then by
   word position, and a call of it leaves the Registry as it was. *)
C26_GetCandidates ==
    /\ [] CandidatesExact(get_candidates(entities))
    /\ [][GetCandidatesCall =>
            /\ last'.value = <<get_candidates(entities)>>
            /\ CandidatesExact(last'.value[1])
            /\ UNCHANGED <<entities, mentions, ana_to_ante>>]_vars

(* a call returned three mentions of two chains, with word positions of one
   and of two digits *)
C26_Witness ==
    /\ last.op = "get_candidates"
    /\ Len(last.value[1]) = 3
    /\ Cardinality({e \in DOMAIN entities : entities[e] # <<>>}) = 2
    /\ \E t, u \in Range(last.value[1]) :
          sent_pos(t) = sent_pos(u) /\ word_pos(t) = 9 /\ word_pos(u) >= 10

----------------------------------------------------------------------------
(* Order of the chains *)

(* C27: chain order equals textual order.  In every state the mentions of
   each chain stand in strictly increasing document order, and the id of an
   entity comes before every other mention of its chain. *)
C27_ChainOrder ==
    \A e \in DOMAIN entities :
        /\ \A i, j \in 1..Len(entities[e]) :
              i < j => Before(entities[e][i], entities[e][j])
        /\ \A m \in Range(entities[e]) : m = e \/ Before(e, m)

(* a chain of three mentions, the last one attached through the second *)
C27_Witness ==
    /\ last.op \in {"nominal", "pronominal"}
    /\ last.antecedent # <<>>
    /\ \E e \in DOMAIN entities :
          /\ Len(entities[e]) = 3
          /\ entities[e][3] = last.tok
          /\ entities[e][2] = last.antecedent[1]

----------------------------------------------------------------------------
(* The distance stage and the non-reflexive stage *)

KindsStages == {"Hund", "er", "sich", "komma"}

ConfigsStages == { <<WEIGHTS, 0, TRUE>>, <<WEIGHTS, 1, TRUE>> }

InitStages == InitWith(KindsStages, {<<0, 0>>}, ConfigsStages)

SpecStages == InitStages /\ [][Next]_vars

(* the loop is at a pronoun the filters are applied to *)
PronounStep ==
    /\ Scanning
    /\ IsPronominal(Cur)
    /\ candidate_report.present

(* the number of sentences between two tokens *)
SentencesApart(t, u) == Abs(sent_pos(t) - sent_pos(u))

(* C28: distance and non-reflexive stages.  The distance stage keeps exactly
   the candidates at most max_sent_dist sentences from the anaphora, the
   non-reflexive stage drops from these exactly the candidates tagged PRF,
   and no antecedent in the Resolution Record is a reflexive pronoun or lies
   more than max_sent_dist sentences from its anaphora. *)
C28_DistanceNonReflexive ==
    /\ [][PronounStep =>
            /\ filtered_results'[Cur].distance
                  = SelectSeq(get_candidates(entities),
                              LAMBDA c : SentencesApart(c, Cur) <= max_sent_dist)
            /\ filtered_results'[Cur].non_reflexive
                  = SelectSeq(filtered_results'[Cur].distance,
                              LAMBDA c : node_attrs(c).pos # "PRF")]_vars
    /\ [](\A t \in DOMAIN ana_to_ante :
            /\ node_attrs(ana_to_ante[t]).pos # "PRF"
            /\ SentencesApart(ana_to_ante[t], t) <= max_sent_dist)

(* a pronoun whose reflexive candidate was dropped and whose antecedent is in
   the Resolution Record *)
C28_Witness ==
    /\ last.op = "pronominal"
    /\ last.tok \in DOMAIN ana_to_ante
    /\ Len(filtered_results[last.tok].non_reflexive)
          < Len(filtered_results[last.tok].distance)

(* a pronoun with a reflexive candidate and a candidate too far away *)
C28_WitnessFar ==
    /\ last.op = "pronominal"
    /\ Len(filtered_results[last.tok].non_reflexive)
          < Len(filtered_results[last.tok].distance)
    /\ \E c \in AllMentions :
          Before(c, last.tok) /\ SentencesApart(c, last.tok) > max_sent_dist

----------------------------------------------------------------------------
(* Two instances *)

MaxTokensTwo == 2    \* tokens of each of the two documents

(* the attributes of the instance whose method is executing *)
Self ==
    [doc |-> doc, weights |-> weights, max_sent_dist |-> max_sent_dist,
     entities |-> entities, mentions |-> mentions,
     ana_to_ante |-> ana_to_ante, filtered_results |-> filtered_results,
     candidate_report |-> candidate_report, pc |-> pc, pos |-> pos,
     err |-> err, calls |-> calls, last |-> last, results |-> results]

(* variant: entities is one dictionary of the class, the same for both *)
InstanceEntitiesShared(inst, current) == current

(* __init__ gives every instance a dictionary of its own *)
InstanceEntities(inst, current) == inst.entities

(* the interpreter leaves the method of one instance between two iterations
   and goes on with the other instance *)
Switch ==
    /\ other # NoInstance
    /\ other' = Self
    /\ doc' = other.doc
    /\ weights' = other.weights
    /\ max_sent_dist' = other.max_sent_dist
    /\ entities' = InstanceEntities(other, entities)
    /\ mentions' = other.mentions
    /\ ana_to_ante' = other.ana_to_ante
    /\ filtered_results' = other.filtered_results
    /\ candidate_report' = other.candidate_report
    /\ pc' = other.pc
    /\ pos' = other.pos
    /\ err' = other.err
    /\ calls' = other.calls
    /\ last' = other.last
    /\ results' = other.results

NextTwo == Next \/ Switch

KindsTwo == {"Hund", "er", "komma"}

DocsTwo ==
    UNION { UNION { {BuildDoc(flat, cuts, 0, 0) : cuts \in SUBSET (1..(n - 1))}
                    : flat \in [1..n -> KindsTwo] }
            : n \in 1..MaxTokensTwo }

(* Pocores(d), and a candidate_report given to it *)
NewInstance(d) ==
    [doc |-> d, weights |-> WEIGHTS, max_sent_dist |-> MAX_SENT_DIST,
     entities |-> EmptyMap, mentions |-> EmptyMap, ana_to_ante |-> EmptyMap,
     filtered_results |-> EmptyMap,
     candidate_report |-> [present |-> TRUE, reports |-> EmptyMap],
     pc |-> "idle", pos |-> 1, err |-> "none", calls |-> 0, last |-> NoLast,
     results |-> <<>>]

InitTwo ==
    /\ doc \in DocsTwo
    /\ weights = WEIGHTS
    /\ max_sent_dist = MAX_SENT_DIST
    /\ entities = EmptyMap
    /\ mentions = EmptyMap
    /\ ana_to_ante = EmptyMap
    /\ filtered_results = EmptyMap
    /\ candidate_report = [present |-> TRUE, reports |-> EmptyMap]
    /\ pc = "idle"
    /\ pos = 1
    /\ err = "none"
    /\ calls = 0
    /\ last = NoLast
    /\ results = <<>>
    /\ other \in {NewInstance(d) : d \in DocsTwo}

SpecTwo == InitTwo /\ [][NextTwo]_vars

Registry(ents, ments, a2a) ==
    [entities |-> ents, mentions |-> ments, ana_to_ante |-> a2a]

(* the loop of resolve_anaphora from token i on, run without interruption *)
RECURSIVE RunFrom(_, _, _, _)
RECURSIVE RunOn(_, _)
RunFrom(ents, ments, a2a, i) ==
    IF i > NumTokens THEN Registry(ents, ments, a2a)
    ELSE IF IsNominal(Flat(doc)[i])
    THEN RunOn(resolve_nominal_anaphora(ents, ments, a2a, Flat(doc)[i]), i)
    ELSE IF IsPronominal(Flat(doc)[i])
    THEN RunOn(resolve_pronominal_anaphora(ents, ments, a2a, weights,
                                           max_sent_dist, Flat(doc)[i]), i)
    ELSE RunFrom(ents, ments, a2a, i + 1)

RunOn(o, i) == RunFrom(o.entities, o.mentions, o.ana_to_ante, i + 1)

(* the registry of an instance that made k runs and nothing else *)
RECURSIVE Alone(_)
Alone(k) ==
    IF k = 0 THEN Registry(EmptyMap, EmptyMap, EmptyMap)
    ELSE RunFrom(ClearedEntities(Alone(k - 1).entities),
                 ClearedMentions(Alone(k - 1).mentions),
                 ClearedAnaToAnte(Alone(k - 1).ana_to_ante), 1)

(* C29: independent instances.  When the steps of two instances are
   interleaved in any order, no step of one instance changes an attribute of
   the other, and an instance whose run is over has the Entity set, the
   Mention Map and the Resolution Record it has after the same runs made
   alone. *)
C29_Independent ==
    /\ [][Switch \/ other' = other]_vars
    /\ [](pc = "done" =>
            Registry(entities, mentions, ana_to_ante) = Alone(Len(results)))

(* both instances have finished a run that registered something, and the
   other one was in the middle of its run when this one finished *)
C29_Witness ==
    /\ pc = "done"
    /\ entities # EmptyMap
    /\ last.op \in {"nominal", "pronominal"}
    /\ other # NoInstance
    /\ other.pc = "scanning"
    /\ other.pos > 1
    /\ other.entities # EmptyMap
    /\ other.entities # entities

----------------------------------------------------------------------------
(* Calls of filters.distance *)

MaxSentDistance == 11    \* greatest sentence index of the ids given to distance

(* token ids with sentence indices and word positions of one and two digits *)
IdsDistance == (1..MaxSentDistance) \X {1, 10}

(* filters.distance(token_node_id1, token_node_id2), called on two ids *)
DistanceCall ==
    /\ \E a \in IdsDistance :
         \E b \in IdsDistance :
           last' = [Step("distance", a, <<>>, <<b>>)
                      EXCEPT !.value = <<distance(a, b)>>]
    /\ UNCHANGED <<other, doc, weights, max_sent_dist, entities, mentions,
                   ana_to_ante, filtered_results, candidate_report, pc, pos,
                   err, calls, results>>

NextDistance == DistanceCall

(* an instance on a document of one token; distance uses neither *)
InitDistance == InitWith({"x"}, {<<0, 0>>}, ConfigsDirect) /\ NumTokens = 1

SpecDistance == InitDistance /\ [][NextDistance]_vars

(* C30: distance symmetry.  distance(a, b) = distance(b, a) for every pair
   of token ids, and distance(a, b) = 0 iff a and b are in the same
   sentence. *)
C30_DistanceSymmetry ==
    last.op = "distance" =>
        /\ last.value = <<distance(last.antecedent[1], last.tok)>>
        /\ last.value = <<0>> <=> sent_pos(last.tok) = sent_pos(last.antecedent[1])

(* two different tokens of a sentence with an index of two digits *)
C30_Witness ==
    /\ last.op = "distance"
    /\ last.value = <<0>>
    /\ last.tok # last.antecedent[1]
    /\ sent_pos(last.tok) >= 10

----------------------------------------------------------------------------
(* Agreement of possessive pronouns *)

(* C31: morph_agreement as its docstring states it.  For a possessive
   anaphora (PPOSAT) a candidate passes the agreement stage iff it does not
   disagree with the anaphora in gender or person, whatever its number; for
   any other anaphora iff it disagrees in none of gender, person and
   number. *)
C31_PossessiveAgreement ==
    \A t \in DOMAIN filtered_results :
        \A c \in Range(filtered_results[t].non_reflexive) :
            c \in Range(filtered_results[t].agreement)
                <=> /\ ~Disagree(c, t, "gender")
                    /\ ~Disagree(c, t, "person")
                    /\ \/ node_attrs(t).pos = "PPOSAT"
                       \/ ~Disagree(c, t, "number")

----------------------------------------------------------------------------
(* Frame of the filters *)

(* C32: filtering has no effect on the Registry.  A call of
   get_filtered_candidates leaves the Entity set, its keys and its chains, as
   it was before the call (the filters have no statement that writes the
   Mention Map or the Resolution Record). *)
C32_FilterFrame == PronounStep => FilteredNow.entities = entities

(* the chains alone: the filters change no chain that has a mention *)
C32_ChainsKept ==
    PronounStep =>
        \A e \in DOMAIN FilteredNow.entities :
            IF e \in DOMAIN entities
            THEN FilteredNow.entities[e] = entities[e]
            ELSE FilteredNow.entities[e] = <<>>

----------------------------------------------------------------------------
(* Direction of the links *)

(* C33: no cataphora.  In every state the candidates of the token the loop is
   at are tokens the current run has dealt with, all of them in front of the
   token and none of them the token itself; every antecedent in the
   Resolution Record and every token a noun was attached to stands in front
   of its anaphora. *)
C33_NoCataphora ==
    /\ Scanning =>
          \A c \in Range(get_candidates(entities)) :
              c \in Visited /\ Before(c, Cur)
    /\ \A t \in DOMAIN ana_to_ante : Before(ana_to_ante[t], t)
    /\ (last.op = "nominal" /\ last.antecedent # <<>>) =>
          Before(last.antecedent[1], last.tok)

(* a pronoun was recorded with its antecedent in a chain to which a noun had
   been attached before *)
C33_Witness ==
    /\ last.op = "pronominal"
    /\ last.tok \in DOMAIN ana_to_ante
    /\ \E e \in DOMAIN entities :
          /\ Len(entities[e]) = 3
          /\ IsNominal(entities[e][2])
          /\ entities[e][3] = last.tok

----------------------------------------------------------------------------
(* The two regimes of the preferences *)

(* the five pronoun tags, a noun, and an indefinite pronoun (PIS) *)
KindsRegimes == {"Hund", "er", "sich", "seine", "der", "dieser", "man"}

InitRegimes == InitWith(KindsRegimes, {<<0, 0>>}, ConfigsMorph)

SpecRegimes == InitRegimes /\ [][Next]_vars

(* the tags of the two branches of the preferences *)
RecentRegime == {"PRELS", "PDS"}
ScoreRegime == {"PPER", "PRF", "PPOSAT"}

(* C34: the two regimes are exhaustive.  Every token the loop sends to
   pronominal resolution has a tag of exactly one of the two regimes, and
   whenever its filtered list is not empty the store step has an antecedent
   chosen from that list: no run ends with an unassigned antecedent. *)
C34_RegimesExhaustive ==
    /\ (Scanning /\ IsPronominal(Cur)) =>
          /\ node_attrs(Cur).pos \in RecentRegime \cup ScoreRegime
          /\ ~(node_attrs(Cur).pos \in RecentRegime \cap ScoreRegime)
    /\ err # "UnboundLocalError"
    /\ (last.op = "pronominal" /\ last.filtered # <<>>) =>
          /\ err = "none"
          /\ last.antecedent # <<>>
          /\ last.antecedent[1] \in Range(last.filtered)
          /\ ana_to_ante[last.tok] = last.antecedent[1]

(* a demonstrative pronoun took its antecedent from a list of two *)
C34_Witness ==
    /\ last.op = "pronominal"
    /\ node_attrs(last.tok).pos = "PDS"
    /\ Len(last.filtered) = 2
    /\ last.antecedent # <<>>

----------------------------------------------------------------------------
(* Nominal resolution and the pronoun filters *)

(* nouns of one lemma in singular and plural, a noun and a pronoun of one
   lemma *)
KindsNominal == {"Hund", "Hunde", "Er", "er", "komma"}

ConfigsNominal == { <<WEIGHTS, 1, TRUE>> }

InitNominal == InitWith(KindsNominal, {<<0, 0>>}, ConfigsNominal)

SpecNominal == InitNominal /\ [][Next]_vars

(* C35: nominal resolution applies none of the pronoun filters.  A noun is
   attached iff some candidate has its lemma, whatever the sentence distance,
   the features, the clause and the tag of that candidate, and then to the
   most recent candidate of its lemma; no filter stage is run for it. *)
C35_NounsUnfiltered ==
    [][(Scanning /\ IsNominal(Cur)) =>
          /\ last'.antecedent = <<>> <=> SameLemma(entities, Cur) = {}
          /\ \A c \in SameLemma(entities, Cur) :
                /\ last'.antecedent # <<>>
                /\ c = last'.antecedent[1] \/ Before(c, last'.antecedent[1])
                /\ Cur \in DOMAIN mentions'
                /\ mentions'[Cur] = mentions[last'.antecedent[1]]
                /\ Cur \in Range(entities'[mentions'[Cur]])
          /\ filtered_results' = filtered_results]_vars

(* a noun joined a noun two sentences away, beyond max_sent_dist, that
   differs from it in number *)
C35_Witness ==
    /\ last.op = "nominal"
    /\ last.antecedent # <<>>
    /\ SentencesApart(last.antecedent[1], last.tok) > max_sent_dist
    /\ ~morph_agreement(last.antecedent[1], last.tok)
    /\ last.tok \in Range(OwningChain(last.antecedent[1]))

(* a noun joined a pronoun of its own sentence *)
C35_WitnessPronoun ==
    /\ last.op = "nominal"
    /\ last.antecedent # <<>>
    /\ node_attrs(last.antecedent[1]).pos = "PPER"
    /\ sent_pos(last.antecedent[1]) = sent_pos(last.tok)
    /\ last.tok \in Range(OwningChain(last.antecedent[1]))

====
